---- MODULE Spec2Model ----
(***************************************************************************)
(* Model of the PDF -> searchable-PDF pipeline of src/main.rs.             *)
(*                                                                         *)
(* main() is a straight-line program: check the input, create a temporary  *)
(* directory, bind PDFium, load the document, render every page to a PNG   *)
(* in the temporary directory, write the file list images.txt, run         *)
(* tesseract on it and report the output path.  Every `?` and every        *)
(* `return Err` is an early return; the TempDir value is dropped (and the  *)
(* directory removed with its contents) whenever main returns after line   *)
(* 40.  Several runs of the program share one file system.                 *)
(***************************************************************************)
EXTENDS Integers, Sequences, FiniteSets, TLC

\* ---------------------------------------------------------------- bounds
NumRuns == 2
MaxPages == 2
MaxExit == 1
MaxPageIndex == 10003

\* ------------------------------------------------------ program constants
PadWidth == 4

Runs == 1..NumRuns
ExitCodes == 0..MaxExit
\* names tempfile::tempdir() can draw: one per run, so a run that asks for a
\* directory always finds a name no other run holds; freed names are reused
DirNames == 1..NumRuns

NoDir == 0
NoFile == <<"no file">>
NoPath == <<>>
NoPage == 0
NoCode == -1
NoError == [kind |-> "none", page |-> NoPage, code |-> NoCode]

\* ------------------------------------------------------------ file names
\* decimal digits of n, most significant first
RECURSIVE Digits(_)
Digits(n) == IF n < 10 THEN <<n>> ELSE Append(Digits(n \div 10), n % 10)

Zeros(k) == [x \in 1..k |-> 0]

\* "{:0w}": zero-padded to at least w digits, never truncated
PadNone(n, w) == Digits(n)
ZeroPad(n, w) ==
    LET d == Digits(n)
    IN  IF Len(d) >= w THEN d ELSE Zeros(w - Len(d)) \o d

\* ASCII codes of the characters of the names
PagePrefix == <<112, 97, 103, 101, 95>>
PngSuffix == <<46, 112, 110, 103>>
ManifestName == <<105, 109, 97, 103, 101, 115, 46, 116, 120, 116>>

Ascii(ds) == [x \in 1..Len(ds) |-> 48 + ds[x]]

\* format!("page_{:04}.png", index + 1), as a byte string
ArtifactName(page) == PagePrefix \o Ascii(ZeroPad(page, PadWidth)) \o PngSuffix

\* temp_dir_path.join(name)
Join(dir, name) == <<dir, name>>

\* byte-wise lexicographic order of Rust's str
LexLess(s, t) ==
    \/ /\ Len(s) < Len(t)
       /\ \A x \in 1..Len(s) : s[x] = t[x]
    \/ \E x \in 1..Len(s) :
         /\ x <= Len(t)
         /\ s[x] < t[x]
         /\ \A y \in 1..(x - 1) : s[y] = t[y]

\* --------------------------------------------------------------- state
VARIABLES
    inputExists,   \* args.input.exists()
    numPages,      \* doc.pages().len() of the input document
    pc,            \* stage of each run
    tempDir,       \* temp_dir of each run
    index,         \* pages the loop of each run has completed
    imagePaths,    \* image_paths of each run
    fileList,      \* lines written through file_list, NoFile before File::create
    ocr,           \* the tesseract child of each run
    err,           \* the Err main returned
    reported,      \* the output path printed on success
    dirs,          \* file system: existing temporary directories
    files,         \* file system: path -> content
    outputs,       \* file system: output files written by tesseract
    pageI, pageJ,  \* inputs of the file-name check
    nameI, nameJ   \* the names generated for them

runVars == <<pc, tempDir, index, imagePaths, fileList, ocr, err, reported>>
fsVars == <<dirs, files, outputs>>
nameVars == <<pageI, pageJ, nameI, nameJ>>
vars == <<inputExists, numPages, runVars, fsVars, nameVars>>

Output(r) == <<"out", r>>

NotLaunched == [state |-> "NotLaunched", code |-> NoCode]

PipelineInit ==
    /\ pc = [r \in Runs |-> "Start"]
    /\ tempDir = [r \in Runs |-> NoDir]
    /\ index = [r \in Runs |-> 0]
    /\ imagePaths = [r \in Runs |-> <<>>]
    /\ fileList = [r \in Runs |-> NoFile]
    /\ ocr = [r \in Runs |-> NotLaunched]
    /\ err = [r \in Runs |-> NoError]
    /\ reported = [r \in Runs |-> NoPath]
    /\ dirs = {}
    /\ files = <<>>
    /\ outputs = {}

Init ==
    /\ inputExists \in BOOLEAN
    /\ numPages \in 0..MaxPages
    /\ PipelineInit
    /\ pageI = 1 /\ pageJ = 1
    /\ nameI = <<>> /\ nameJ = <<>>

\* ------------------------------------------------------------- helpers
Error(kind) == [kind |-> kind, page |-> NoPage, code |-> NoCode]

\* write (create or truncate) one file
WriteFile(fs, path, content) ==
    [p \in DOMAIN fs \cup {path} |-> IF p = path THEN content ELSE fs[p]]

\* remove_dir_all: every file below dir
RemoveDirAll(dir, fs) ==
    [p \in {q \in DOMAIN fs : q[1] # dir} |-> fs[p]]

\* tempfile::tempdir(): a name no existing directory has
FixedDirs(existing) == {1}
FreshDirs(existing) == DirNames \ existing

\* Drop for TempDir, run when main returns
LeakTempDir(r) == UNCHANGED <<dirs, files>>
DropTempDir(r) ==
    /\ dirs' = dirs \ {tempDir[r]}
    /\ files' = RemoveDirAll(tempDir[r], files)

\* return Err(e)
Fail(r, e) ==
    /\ pc' = [pc EXCEPT ![r] = "Failed"]
    /\ err' = [err EXCEPT ![r] = e]

PngContent(r, page) == [run |-> r, page |-> page, lines |-> <<>>]
ListContent(r, lines) == [run |-> r, page |-> NoPage, lines |-> lines]

\* ------------------------------------------------------------- actions
\* lines 33-37
CheckInputAlways(r) ==
    /\ pc[r] = "Start"
    /\ pc' = [pc EXCEPT ![r] = "InputValidated"]
    /\ UNCHANGED <<tempDir, index, imagePaths, fileList, ocr, err, reported>>
    /\ UNCHANGED <<inputExists, numPages, fsVars, nameVars>>
CheckInput(r) ==
    /\ pc[r] = "Start"
    /\ inputExists
    /\ pc' = [pc EXCEPT ![r] = "InputValidated"]
    /\ UNCHANGED <<tempDir, index, imagePaths, fileList, ocr, err, reported>>
    /\ UNCHANGED <<inputExists, numPages, fsVars, nameVars>>

InputMissing(r) ==
    /\ pc[r] = "Start"
    /\ ~inputExists
    /\ Fail(r, Error("Input file does not exist"))
    /\ UNCHANGED <<tempDir, index, imagePaths, fileList, ocr, reported>>
    /\ UNCHANGED <<inputExists, numPages, fsVars, nameVars>>

\* line 40
CreateTempDir(r) ==
    /\ pc[r] = "InputValidated"
    /\ \E d \in FreshDirs(dirs) :
         /\ tempDir' = [tempDir EXCEPT ![r] = d]
         /\ dirs' = dirs \cup {d}
    /\ pc' = [pc EXCEPT ![r] = "WorkspaceReady"]
    /\ UNCHANGED <<index, imagePaths, fileList, ocr, err, reported>>
    /\ UNCHANGED <<inputExists, numPages, files, outputs, nameVars>>

CreateTempDirFail(r) ==
    /\ pc[r] = "InputValidated"
    /\ Fail(r, Error("Failed to create temporary directory"))
    /\ UNCHANGED <<tempDir, index, imagePaths, fileList, ocr, reported>>
    /\ UNCHANGED <<inputExists, numPages, fsVars, nameVars>>

\* lines 44-47
BindEngine(r) ==
    /\ pc[r] = "WorkspaceReady"
    /\ pc' = [pc EXCEPT ![r] = "EngineBound"]
    /\ UNCHANGED <<tempDir, index, imagePaths, fileList, ocr, err, reported>>
    /\ UNCHANGED <<inputExists, numPages, fsVars, nameVars>>

BindEngineFail(r) ==
    /\ pc[r] = "WorkspaceReady"
    /\ Fail(r, Error("PdfiumError: bind"))
    /\ DropTempDir(r)
    /\ UNCHANGED <<tempDir, index, imagePaths, fileList, ocr, reported>>
    /\ UNCHANGED <<inputExists, numPages, outputs, nameVars>>

\* line 50
LoadDocument(r) ==
    /\ pc[r] = "EngineBound"
    /\ pc' = [pc EXCEPT ![r] = "DocumentLoaded"]
    /\ UNCHANGED <<tempDir, index, imagePaths, fileList, ocr, err, reported>>
    /\ UNCHANGED <<inputExists, numPages, fsVars, nameVars>>

LoadDocumentFail(r) ==
    /\ pc[r] = "EngineBound"
    /\ Fail(r, Error("PdfiumError: load"))
    /\ DropTempDir(r)
    /\ UNCHANGED <<tempDir, index, imagePaths, fileList, ocr, reported>>
    /\ UNCHANGED <<inputExists, numPages, outputs, nameVars>>

\* lines 51-55
BeginPages(r) ==
    /\ pc[r] = "DocumentLoaded"
    /\ pc' = [pc EXCEPT ![r] = "PagesProcessed"]
    /\ index' = [index EXCEPT ![r] = 0]
    /\ imagePaths' = [imagePaths EXCEPT ![r] = <<>>]
    /\ UNCHANGED <<tempDir, fileList, ocr, err, reported>>
    /\ UNCHANGED <<inputExists, numPages, fsVars, nameVars>>

\* line 57: the iterator still has a page
PagesRemainingOffByOne(r) == index[r] <= numPages
PagesRemaining(r) == index[r] < numPages

\* lines 57-89, one iteration that succeeds
ProcessPage(r) ==
    /\ pc[r] = "PagesProcessed"
    /\ PagesRemaining(r)
    /\ tempDir[r] \in dirs
    /\ LET page == index[r] + 1
           image_path == Join(tempDir[r], ArtifactName(page))
       IN  /\ files' = WriteFile(files, image_path, PngContent(r, page))
           /\ imagePaths' = [imagePaths EXCEPT ![r] = Append(@, image_path)]
           /\ index' = [index EXCEPT ![r] = page]
    /\ UNCHANGED <<pc, tempDir, fileList, ocr, err, reported>>
    /\ UNCHANGED <<inputExists, numPages, dirs, outputs, nameVars>>

PageCauses == {"PdfiumError: render", "io::Error: create png",
               "ImageError: encode", "io::Error: write png"}

\* lines 65, 70, 83, 85: `?` of one iteration; the page is skipped instead
PageFailSkip(r) ==
    /\ pc[r] = "PagesProcessed"
    /\ PagesRemaining(r)
    /\ \E cause \in PageCauses : err' = [err EXCEPT ![r] = Error(cause)]
    /\ index' = [index EXCEPT ![r] = @ + 1]
    /\ UNCHANGED <<pc, tempDir, imagePaths, fileList, ocr, reported>>
    /\ UNCHANGED <<inputExists, numPages, fsVars, nameVars>>
\* lines 65, 70, 83, 85: `?` of one iteration returns the library's error
PageFail(r) ==
    /\ pc[r] = "PagesProcessed"
    /\ PagesRemaining(r)
    /\ \E cause \in PageCauses : Fail(r, Error(cause))
    /\ DropTempDir(r)
    /\ UNCHANGED <<tempDir, index, imagePaths, fileList, ocr, reported>>
    /\ UNCHANGED <<inputExists, numPages, outputs, nameVars>>

\* lines 98-100: one line per path, in the order of image_paths
ManifestLinesTail(paths) == IF paths = <<>> THEN <<>> ELSE Tail(paths)
ManifestLines(paths) == paths

\* lines 96-100
WriteManifestEarly(r) ==
    /\ pc[r] = "PagesProcessed"
    /\ tempDir[r] \in dirs
    /\ LET lines == ManifestLines(imagePaths[r])
       IN  /\ files' = WriteFile(files, Join(tempDir[r], ManifestName),
                                 ListContent(r, lines))
           /\ fileList' = [fileList EXCEPT ![r] = lines]
    /\ pc' = [pc EXCEPT ![r] = "ManifestWritten"]
    /\ UNCHANGED <<tempDir, index, imagePaths, ocr, err, reported>>
    /\ UNCHANGED <<inputExists, numPages, dirs, outputs, nameVars>>
WriteManifest(r) ==
    /\ pc[r] = "PagesProcessed"
    /\ ~PagesRemaining(r)
    /\ tempDir[r] \in dirs
    /\ LET lines == ManifestLines(imagePaths[r])
       IN  /\ files' = WriteFile(files, Join(tempDir[r], ManifestName),
                                 ListContent(r, lines))
           /\ fileList' = [fileList EXCEPT ![r] = lines]
    /\ pc' = [pc EXCEPT ![r] = "ManifestWritten"]
    /\ UNCHANGED <<tempDir, index, imagePaths, ocr, err, reported>>
    /\ UNCHANGED <<inputExists, numPages, dirs, outputs, nameVars>>

\* line 97 fails (written = -1) or the writeln! of line written + 1 fails
ManifestFail(r) ==
    /\ pc[r] = "PagesProcessed"
    /\ ~PagesRemaining(r)
    /\ \E written \in (-1)..(Len(imagePaths[r]) - 1) :
         fileList' = [fileList EXCEPT ![r] =
                        IF written < 0 THEN NoFile
                        ELSE SubSeq(ManifestLines(imagePaths[r]), 1, written)]
    /\ Fail(r, Error("io::Error: images.txt"))
    /\ DropTempDir(r)
    /\ UNCHANGED <<tempDir, index, imagePaths, ocr, reported>>
    /\ UNCHANGED <<inputExists, numPages, outputs, nameVars>>

\* lines 103-107: cmd.status() starts the child and blocks
SpawnOcr(r) ==
    /\ pc[r] = "ManifestWritten"
    /\ ocr' = [ocr EXCEPT ![r] = [state |-> "Running", code |-> NoCode]]
    /\ pc' = [pc EXCEPT ![r] = "OcrInvoked"]
    /\ UNCHANGED <<tempDir, index, imagePaths, fileList, err, reported>>
    /\ UNCHANGED <<inputExists, numPages, fsVars, nameVars>>

\* line 107: cmd.status() is Err, the child never started
SpawnFail(r) ==
    /\ pc[r] = "ManifestWritten"
    /\ ocr' = [ocr EXCEPT ![r] = [state |-> "SpawnFailed", code |-> NoCode]]
    /\ Fail(r, Error("Failed to run tesseract"))
    /\ DropTempDir(r)
    /\ UNCHANGED <<tempDir, index, imagePaths, fileList, reported>>
    /\ UNCHANGED <<inputExists, numPages, outputs, nameVars>>

\* lines 107-113: the child exits; status.success() is code = 0
OcrExitIgnoreStatus(r) ==
    /\ pc[r] = "OcrInvoked"
    /\ \E code \in ExitCodes, wrote \in BOOLEAN :
         /\ ocr' = [ocr EXCEPT ![r] = [state |-> "Exited", code |-> code]]
         /\ outputs' = IF code = 0 \/ wrote THEN outputs \cup {Output(r)}
                       ELSE outputs
    /\ pc' = [pc EXCEPT ![r] = "Done"]
    /\ reported' = [reported EXCEPT ![r] = Output(r)]
    /\ DropTempDir(r)
    /\ UNCHANGED <<tempDir, index, imagePaths, fileList, err>>
    /\ UNCHANGED <<inputExists, numPages, nameVars>>
OcrExit(r) ==
    /\ pc[r] = "OcrInvoked"
    /\ \E code \in ExitCodes, wrote \in BOOLEAN :
         /\ ocr' = [ocr EXCEPT ![r] = [state |-> "Exited", code |-> code]]
         /\ outputs' = IF code = 0 \/ wrote THEN outputs \cup {Output(r)}
                       ELSE outputs
         /\ IF code = 0
            THEN /\ pc' = [pc EXCEPT ![r] = "Done"]
                 /\ reported' = [reported EXCEPT ![r] = Output(r)]
                 /\ UNCHANGED err
            ELSE /\ Fail(r, Error("Tesseract OCR failed"))
                 /\ UNCHANGED reported
    /\ DropTempDir(r)
    /\ UNCHANGED <<tempDir, index, imagePaths, fileList>>
    /\ UNCHANGED <<inputExists, numPages, nameVars>>

Next ==
    \E r \in Runs :
        \/ CheckInput(r)
        \/ InputMissing(r)
        \/ CreateTempDir(r)
        \/ CreateTempDirFail(r)
        \/ BindEngine(r)
        \/ BindEngineFail(r)
        \/ LoadDocument(r)
        \/ LoadDocumentFail(r)
        \/ BeginPages(r)
        \/ ProcessPage(r)
        \/ PageFail(r)
        \/ WriteManifest(r)
        \/ ManifestFail(r)
        \/ SpawnOcr(r)
        \/ SpawnFail(r)
        \/ OcrExit(r)

Spec == Init /\ [][Next]_vars

\* ------------------------------------------- file names as a pure function
\* page indices around every change of the number of digits
Samples == {1, 2, 9, 10, 99, 100, 999, 1000, 1001, 5000, 9998, 9999, 10000}

NameInit ==
    /\ inputExists = TRUE
    /\ numPages = 0
    /\ PipelineInit
    /\ pageI \in Samples
    /\ pageJ \in (pageI + 1)..MaxPageIndex
    /\ nameI = <<>> /\ nameJ = <<>>

FormatNames ==
    /\ nameI = <<>>
    /\ nameI' = ArtifactName(pageI)
    /\ nameJ' = ArtifactName(pageJ)
    /\ UNCHANGED <<inputExists, numPages, runVars, fsVars, pageI, pageJ>>

NameNext == FormatNames

NameSpec == NameInit /\ [][NameNext]_vars


\* ------------------------------------------------------------ properties
Terminal(r) == pc[r] \in {"Done", "Failed"}

\* the run owns a workspace: line 40 has succeeded and main has not returned
HoldsWorkspace(r) ==
    pc[r] \in {"WorkspaceReady", "EngineBound", "DocumentLoaded",
               "PagesProcessed", "ManifestWritten", "OcrInvoked"}

ManifestPath(r) == Join(tempDir[r], ManifestName)
ArtifactPath(r, page) == Join(tempDir[r], ArtifactName(page))

\* the manifest and the N artifacts of run r are on disk and agree
ManifestComplete(r) ==
    /\ ManifestPath(r) \in DOMAIN files
    /\ LET lines == files[ManifestPath(r)].lines
       IN  /\ Len(lines) = numPages
           /\ \A p \in 1..numPages :
                /\ lines[p] = ArtifactPath(r, p)
                /\ lines[p] \in DOMAIN files
                /\ files[lines[p]] = PngContent(r, p)
           /\ \A p, q \in 1..numPages : p # q => lines[p] # lines[q]

\* C1: when tesseract is launched (and for as long as it runs) images.txt
\* has exactly N lines, line i is the path of the artifact of page i, the
\* paths are pairwise distinct and every listed file exists.
C1_ManifestAtLaunch ==
    \A r \in Runs :
        pc[r] \in {"ManifestWritten", "OcrInvoked"} => ManifestComplete(r)

C1_Witness ==
    \E r \in Runs : pc[r] = "OcrInvoked" /\ numPages >= 2

\* C2: every temporary directory on disk belongs to a run that has not
\* returned, and every file of a workspace lies in such a directory: a run
\* that has returned, by any path, has left neither directory nor contents.
C2_WorkspaceRemovedOnReturn ==
    /\ \A d \in dirs : \E r \in Runs : HoldsWorkspace(r) /\ tempDir[r] = d
    /\ \A p \in DOMAIN files : p[1] \in dirs
    /\ (\A r \in Runs : Terminal(r)) => dirs = {} /\ files = <<>>

C2_Witness ==
    \E r \in Runs :
        /\ pc[r] = "Failed"
        /\ err[r].kind = "Tesseract OCR failed"
        /\ Len(imagePaths[r]) >= 1
        /\ tempDir[r] \notin dirs

\* C3: when the input path does not exist a run goes from Start straight to
\* Failed; no directory is ever created, the engine is never bound, no file is
\* ever written and tesseract is never launched.
C3_MissingInputFailsFast ==
    ~inputExists =>
        /\ dirs = {} /\ files = <<>> /\ outputs = {}
        /\ \A r \in Runs :
             /\ pc[r] \in {"Start", "Failed"}
             /\ tempDir[r] = NoDir
             /\ fileList[r] = NoFile
             /\ ocr[r] = NotLaunched
             /\ pc[r] = "Failed" => err[r].kind = "Input file does not exist"

C3_Witness ==
    ~inputExists /\ \E r \in Runs : pc[r] = "Failed"

\* C4: when rendering or encoding page k fails the run is Failed, pages
\* k+1..N are never processed, the manifest is never written, tesseract is
\* never launched and no output file is produced.
PageFailed(r) == err[r].kind \in PageCauses

C4_PageFailureAborts ==
    /\ [](\A r \in Runs :
            PageFailed(r) =>
                /\ pc[r] = "Failed"
                /\ index[r] < numPages
                /\ Len(imagePaths[r]) = index[r]
                /\ fileList[r] = NoFile
                /\ ocr[r] = NotLaunched
                /\ reported[r] = NoPath
                /\ Output(r) \notin outputs)
    /\ [][\A r \in Runs :
            PageFailed(r) =>
                /\ index'[r] = index[r]
                /\ imagePaths'[r] = imagePaths[r]
                /\ pc'[r] = pc[r]]_vars

C4_Witness ==
    \E r \in Runs : PageFailed(r) /\ index[r] + 1 < numPages


\* position of a run in the linear order of stages
StageRank(r) ==
    CASE pc[r] = "Start" -> 0
      [] pc[r] = "InputValidated" -> 1
      [] pc[r] = "WorkspaceReady" -> 2
      [] pc[r] = "EngineBound" -> 3
      [] pc[r] = "DocumentLoaded" -> 4
      [] pc[r] = "PagesProcessed" -> 5 + index[r]
      [] pc[r] = "ManifestWritten" -> 6 + numPages
      [] pc[r] = "OcrInvoked" -> 7 + numPages
      [] OTHER -> 8 + numPages

RunState(r) ==
    <<pc[r], tempDir[r], index[r], imagePaths[r], fileList[r], ocr[r],
      err[r], reported[r]>>

\* C5: a run moves one stage forward at a time or jumps to Failed; no page
\* is processed twice, the manifest is written once and only after all N
\* pages, tesseract is launched at most once and only on the complete
\* manifest, and a run that is Done or Failed does nothing more.
C5_StagesOnlyForward ==
    /\ [](\A r \in Runs :
            /\ index[r] <= numPages
            /\ Len(imagePaths[r]) = index[r]
            /\ fileList[r] # NoFile => index[r] = numPages
            /\ pc[r] \in {"ManifestWritten", "OcrInvoked", "Done"} =>
                  fileList[r] = imagePaths[r] /\ Len(fileList[r]) = numPages
            /\ ocr[r] # NotLaunched =>
                  fileList[r] = imagePaths[r] /\ Len(fileList[r]) = numPages)
    /\ [][\A r \in Runs :
            /\ Terminal(r) => RunState(r)' = RunState(r)
            /\ RunState(r)' # RunState(r) =>
                  \/ pc'[r] = "Failed"
                  \/ StageRank(r)' = StageRank(r) + 1
            /\ fileList[r] # NoFile => fileList'[r] = fileList[r]
            /\ ocr[r] # NotLaunched =>
                  \/ ocr'[r] = ocr[r]
                  \/ ocr[r].state = "Running" /\ ocr'[r].state = "Exited"]_vars

C5_Witness ==
    \E r \in Runs : pc[r] = "Done" /\ numPages >= 2

\* C6: the run is Done and has reported its output path exactly when
\* tesseract was spawned and exited with 0; a spawn failure and a non-zero
\* exit both fail the run, with different error values; at a spawn failure
\* the N artifacts and the complete manifest are on disk.
C6_OutcomeFollowsOcr ==
    /\ [](\A r \in Runs :
            /\ pc[r] = "Done" <=> (ocr[r].state = "Exited" /\ ocr[r].code = 0)
            /\ pc[r] = "Done" <=> reported[r] = Output(r)
            /\ reported[r] \in {NoPath, Output(r)}
            /\ pc[r] = "Done" => Output(r) \in outputs
            /\ ocr[r].state = "SpawnFailed" =>
                  /\ pc[r] = "Failed"
                  /\ err[r].kind = "Failed to run tesseract"
                  /\ Len(imagePaths[r]) = numPages
                  /\ fileList[r] = imagePaths[r]
            /\ (ocr[r].state = "Exited" /\ ocr[r].code # 0) =>
                  /\ pc[r] = "Failed"
                  /\ err[r].kind = "Tesseract OCR failed")
    /\ [][\A r \in Runs :
            (ocr[r] = NotLaunched /\ ocr'[r].state = "SpawnFailed") =>
                ManifestComplete(r)]_vars

C6_Witness ==
    \E r, s \in Runs :
        /\ ocr[r].state = "SpawnFailed" /\ numPages >= 1
        /\ ocr[s].state = "Exited" /\ ocr[s].code # 0

\* C7: a page failure carries the index of the page, a non-zero exit of
\* tesseract carries the exit code.
C7_ErrorsCarryContext ==
    \A r \in Runs :
        pc[r] = "Failed" =>
            /\ PageFailed(r) => err[r].page = index[r] + 1
            /\ err[r].kind = "Tesseract OCR failed" => err[r].code = ocr[r].code


\* number of digits the padded index of a page has
PaddedWidth(page) ==
    IF Len(Digits(page)) > PadWidth THEN Len(Digits(page)) ELSE PadWidth

Formatted == nameI # <<>>

\* C8 as stated: for all page indices i < j the name of page i sorts before
\* the name of page j, also beyond 9999 pages.
C8_NamesSortInPageOrder ==
    Formatted => LexLess(nameI, nameJ)

\* C8 amended: the name of page i sorts before the name of page j whenever
\* i < j and the two padded indices have the same number of digits (always
\* so up to 9999 pages).
C8_NamesSortWithinWidth ==
    (Formatted /\ PaddedWidth(pageI) = PaddedWidth(pageJ)) =>
        /\ LexLess(nameI, nameJ)
        /\ ~LexLess(nameJ, nameI)

C8_Witness ==
    Formatted /\ pageI = 999 /\ pageJ = 1000

\* the files of the workspace of run r
WorkspaceFiles(r) ==
    [p \in {q \in DOMAIN files : q[1] = tempDir[r]} |-> files[p]]

\* C9: concurrent runs have different workspaces; every file of a workspace
\* was written by the run that owns it; a manifest lists only artifacts of
\* its own run; a step of one run leaves the workspace of every other run
\* as it was; when all runs have ended nothing is left.
C9_RunsDoNotInterfere ==
    /\ [](/\ \A r, s \in Runs :
               (r # s /\ HoldsWorkspace(r) /\ HoldsWorkspace(s)) =>
                   tempDir[r] # tempDir[s]
          /\ \A r \in Runs :
               HoldsWorkspace(r) =>
                   /\ tempDir[r] \in dirs
                   /\ \A p \in DOMAIN WorkspaceFiles(r) :
                        /\ files[p].run = r
                        /\ \A x \in 1..Len(files[p].lines) :
                             /\ files[p].lines[x][1] = tempDir[r]
                             /\ files[p].lines[x] \in DOMAIN files
                             /\ files[files[p].lines[x]].run = r
                   /\ \A x \in 1..Len(imagePaths[r]) :
                        /\ imagePaths[r][x] \in DOMAIN files
                        /\ files[imagePaths[r][x]] = PngContent(r, x)
          /\ \A p \in DOMAIN files :
               \E r \in Runs : HoldsWorkspace(r) /\ tempDir[r] = p[1]
          /\ (\A r \in Runs : Terminal(r)) => (dirs = {} /\ files = <<>>))
    /\ [][\A r \in Runs :
            (HoldsWorkspace(r) /\ RunState(r)' = RunState(r)) =>
                /\ WorkspaceFiles(r)' = WorkspaceFiles(r)
                /\ tempDir[r] \in dirs']_vars

C9_Witness ==
    /\ numPages >= 1
    /\ \A r \in Runs : pc[r] = "Done" /\ Output(r) \in outputs
    /\ dirs = {} /\ files = <<>>

\* the run got as far as the page loop
DocumentWasLoaded(r) ==
    \/ pc[r] \in {"PagesProcessed", "ManifestWritten", "OcrInvoked", "Done"}
    \/ /\ pc[r] = "Failed"
       /\ err[r].kind \notin {"Input file does not exist",
                              "Failed to create temporary directory",
                              "PdfiumError: bind", "PdfiumError: load"}

NoPageWork(r) ==
    /\ index[r] = 0
    /\ imagePaths[r] = <<>>
    /\ \A p \in DOMAIN files : files[p].run = r => files[p].page = NoPage
    /\ ~PageFailed(r)
    /\ fileList[r] \in {NoFile, <<>>}
    /\ pc[r] \in {"ManifestWritten", "OcrInvoked"} =>
          /\ ManifestPath(r) \in DOMAIN files
          /\ files[ManifestPath(r)].lines = <<>>

DecidedByOcr(r) ==
    /\ ocr[r] # NotLaunched
    /\ fileList[r] = <<>>
    /\ pc[r] = "Done" <=> (ocr[r].state = "Exited" /\ ocr[r].code = 0)
    /\ pc[r] = "Failed" =>
          err[r].kind \in {"Failed to run tesseract", "Tesseract OCR failed"}

\* C10 as stated: for a document of 0 pages nothing is rendered, the empty
\* manifest is always created, tesseract is always launched on it and its
\* spawn/exit result alone decides the outcome.
C10_EmptyDocumentDecidedByOcr ==
    numPages = 0 =>
        \A r \in Runs :
            /\ NoPageWork(r)
            /\ (Terminal(r) /\ DocumentWasLoaded(r)) => DecidedByOcr(r)

\* C10 amended: ... unless File::create of images.txt fails; then the run
\* fails with that io::Error, nothing was written and tesseract is not
\* launched.  It never ends in a page failure.
C10_EmptyDocumentAmended ==
    numPages = 0 =>
        \A r \in Runs :
            /\ NoPageWork(r)
            /\ (Terminal(r) /\ DocumentWasLoaded(r)) =>
                  \/ DecidedByOcr(r)
                  \/ /\ pc[r] = "Failed"
                     /\ err[r].kind = "io::Error: images.txt"
                     /\ fileList[r] = NoFile
                     /\ ocr[r] = NotLaunched

C10_Witness ==
    /\ numPages = 0
    /\ \E r, s \in Runs :
         /\ pc[r] = "Done" /\ fileList[r] = <<>>
         /\ pc[s] = "Failed" /\ ocr[s].state = "Exited"

====
